---------------------------- MODULE Spec2Model ----------------------------
(***************************************************************************)
(* A model of the integration glue of ecommerce_integrations:              *)
(*   controllers/inventory.py   - the inventory diff readers and the sync  *)
(*                                 status writer                           *)
(*   unicommerce/delivery_note.py - the delivery note creator              *)
(* The two files share no state, so each has its own specification over    *)
(* the same variables: SpecInventory (and SpecLevels, the part of it that  *)
(* get_inventory_levels and update_inventory_sync_status make up) and      *)
(* SpecDelivery.                                                           *)
(***************************************************************************)
EXTENDS Integers, Sequences, FiniteSets, Bags, TLC

VARIABLES
    ecom,       \* table `Ecommerce Item`: name -> row
    bins,       \* table `Bin`: name -> row
    clock,      \* the wall clock read by frappe.utils.now()
    lastCall,   \* the last inventory operation, its arguments and what it returned
    settings,        \* the Unicommerce Settings document
    api,             \* what the Unicommerce API reports per shipping package
    sales_orders,    \* table `Sales Order`
    sales_invoices,  \* table `Sales Invoice`
    delivery_notes,  \* table `Delivery Note`, in order of creation
    createdFor,      \* per Delivery Note, the package whose processing created it
    pc,              \* where prepare_delivery_note stands: idle, facilities, packages
    facQueue,        \* the facilities its outer loop has still to visit
    pkgQueue,        \* the shipped packages its inner loop has still to visit
    runs,            \* calls of prepare_delivery_note so far
    outcome,         \* how the last call ended: none, returned, caught, propagated
    logs,            \* the Unicommerce logs written by the current (or last) call
    apiCalls,        \* the API calls made by the current (or last) call
    createCalls      \* the packages create_delivery_note was called for in that call

invVars == <<ecom, bins, clock, lastCall>>
dnVars == <<settings, api, sales_orders, sales_invoices, delivery_notes, createdFor,
            pc, facQueue, pkgQueue, runs, outcome, logs, apiCalls, createCalls>>
vars == <<invVars, dnVars>>

(***************************************************************************)
(* Bounds                                                                  *)
(***************************************************************************)
MaxTime == 1        \* timestamps are 0..MaxTime
MaxQty == 1         \* a Bin's actual_qty is 0..MaxQty
MaxRuns == 2        \* prepare_delivery_note is called at most MaxRuns times

Times == 0..MaxTime
Qtys == 0..MaxQty

(***************************************************************************)
(* The catalogue the inventory functions read                              *)
(***************************************************************************)
ItemCodes == {"ITEM-A", "ITEM-B"}
Integrations == {"shopify", "unicommerce"}
Warehouses == {"WH-G", "WH-1", "WH-2"}
EcomItemNames == {"EI-1", "EI-2"}
MissingEcomItem == "EI-none"
BinNames == {"BIN-1", "BIN-2"}

\* the `warehouses` a caller passes: a tuple of at least one warehouse
WarehouseTuples == (SUBSET Warehouses) \ {{}}

\* the `time=None` default of update_inventory_sync_status, and a given time
None == <<>>
Some(t) == <<t>>

\* Warehouse tree: WH-G is a group, WH-1 its child, WH-2 a child of WH-1.
parent_warehouse == [w \in {"WH-1", "WH-2"} |-> IF w = "WH-1" THEN "WH-G" ELSE "WH-1"]

RECURSIVE get_descendants_of(_)
get_descendants_of(w) ==
    LET children == {c \in DOMAIN parent_warehouse : parent_warehouse[c] = w}
    IN  children \cup UNION {get_descendants_of(c) : c \in children}

now == clock

\* lastCall when the last step was not a call of the inventory controller
NoCall == [op |-> "none", args |-> <<>>, ret |-> <<>>]

(***************************************************************************)
(* get_inventory_levels                                                    *)
(***************************************************************************)
\* FROM `Ecommerce Item` JOIN `Bin` ON erpnext_item_code = item_code
JoinOn(e, b) == ecom[e].erpnext_item_code = bins[b].item_code

JoinedPairs == {p \in EcomItemNames \X BinNames : JoinOn(p[1], p[2])}

\* a WHERE clause that compares the timestamps with >= instead of >
MutLevelsWhereNotStrict(e, b, warehouses, integration) ==
    /\ bins[b].warehouse \in warehouses
    /\ bins[b].modified >= ecom[e].inventory_synced_on
    /\ ecom[e].integration = integration

\* WHERE Bin.warehouse IN warehouses AND Bin.modified > inventory_synced_on
\*   AND integration = %s
LevelsWhere(e, b, warehouses, integration) ==
    /\ bins[b].warehouse \in warehouses
    /\ bins[b].modified > ecom[e].inventory_synced_on
    /\ ecom[e].integration = integration

\* the SELECT list
LevelsRow(e, b) ==
    [ ecom_item |-> e,
      item_code |-> bins[b].item_code,
      integration_item_code |-> ecom[e].integration_item_code,
      variant_id |-> ecom[e].variant_id,
      actual_qty |-> bins[b].actual_qty,
      warehouse |-> bins[b].warehouse,
      reserved_qty |-> bins[b].reserved_qty ]

\* query.run(as_dict=1): one row per selected pair, as a bag of rows
get_inventory_levels(warehouses, integration) ==
    LET sel == {p \in JoinedPairs : LevelsWhere(p[1], p[2], warehouses, integration)}
        rows == {LevelsRow(p[1], p[2]) : p \in sel}
    IN  [r \in rows |-> Cardinality({p \in sel : LevelsRow(p[1], p[2]) = r})]

(***************************************************************************)
(* get_inventory_levels_of_group_warehouse                                 *)
(***************************************************************************)
RECURSIVE SumOver(_, _, _)
\* SQL SUM of column `col` of the Bin side over a set of joined pairs
SumOver(pairs, col, acc) ==
    IF pairs = {} THEN acc
    ELSE LET p == CHOOSE q \in pairs : TRUE
         IN  SumOver(pairs \ {p}, col, acc + bins[p[2]][col])

SetMax(S) == CHOOSE m \in S : \A x \in S : x <= m

all_warehouses(warehouse) == get_descendants_of(warehouse) \cup {warehouse}

\* WHERE Bin.warehouse IN all_warehouses AND integration = %s
GroupWhere(e, b, warehouse, integration) ==
    /\ bins[b].warehouse \in all_warehouses(warehouse)
    /\ ecom[e].integration = integration

GroupSelected(warehouse, integration) ==
    {p \in JoinedPairs : GroupWhere(p[1], p[2], warehouse, integration)}

\* GROUP BY EcommerceItem.erpnext_item_code
GroupKey(p) == ecom[p[1]].erpnext_item_code

GroupOf(sel, k) == {p \in sel : GroupKey(p) = k}

\* HAVING MAX(Bin.modified) > MAX(EcommerceItem.inventory_synced_on)
GroupHaving(g) ==
    SetMax({bins[p[2]].modified : p \in g})
        > SetMax({ecom[p[1]].inventory_synced_on : p \in g})

\* the SELECT list of one group; `rep` is the joined row the database takes
\* the columns that are neither aggregated nor grouped from
GroupRow(g, rep, warehouse) ==
    [ ecom_item |-> rep[1],
      item_code |-> bins[rep[2]].item_code,
      integration_item_code |-> ecom[rep[1]].integration_item_code,
      variant_id |-> ecom[rep[1]].variant_id,
      actual_qty |-> SumOver(g, "actual_qty", 0),
      reserved_qty |-> SumOver(g, "reserved_qty", 0),
      last_updated |-> SetMax({bins[p[2]].modified : p \in g}),
      last_synced |-> SetMax({ecom[p[1]].inventory_synced_on : p \in g}),
      warehouse |-> warehouse ]

\* Every result the query can give: one row per group that passes HAVING, its
\* representative row any row of the group.
GroupResults(warehouse, integration) ==
    LET sel == GroupSelected(warehouse, integration)
        keys == {k \in {GroupKey(p) : p \in sel} : GroupHaving(GroupOf(sel, k))}
    IN  { SetToBag({GroupRow(GroupOf(sel, k), rep[k], warehouse) : k \in keys}) :
            rep \in {f \in [keys -> sel] : \A k \in keys : f[k] \in GroupOf(sel, k)} }

(***************************************************************************)
(* Actions of the inventory controller                                     *)
(***************************************************************************)
GetInventoryLevels(warehouses, integration) ==
    /\ lastCall' = [ op |-> "get_inventory_levels",
                     args |-> <<warehouses, integration>>,
                     ret |-> get_inventory_levels(warehouses, integration) ]
    /\ UNCHANGED <<ecom, bins, clock, dnVars>>

GetInventoryLevelsOfGroupWarehouse(warehouse, integration) ==
    /\ \E data \in GroupResults(warehouse, integration) :
          lastCall' = [ op |-> "get_inventory_levels_of_group_warehouse",
                        args |-> <<warehouse, integration>>,
                        ret |-> data ]
    /\ UNCHANGED <<ecom, bins, clock, dnVars>>

\* an UPDATE that lost its WHERE name = ecommerce_item
MutSetSyncedOnEveryRow(ecommerce_item, time) ==
    [n \in EcomItemNames |-> [ecom[n] EXCEPT !.inventory_synced_on = time]]

\* frappe.db.set_value: UPDATE ... WHERE name = ecommerce_item
SetSyncedOn(ecommerce_item, time) ==
    [n \in EcomItemNames |->
        IF n = ecommerce_item
        THEN [ecom[n] EXCEPT !.inventory_synced_on = time]
        ELSE ecom[n]]

SyncTime(time) == IF time = None THEN now ELSE time[1]

UpdateInventorySyncStatus(ecommerce_item, time) ==
    /\ ecom' = SetSyncedOn(ecommerce_item, SyncTime(time))
    /\ lastCall' = [ op |-> "update_inventory_sync_status",
                     args |-> <<ecommerce_item, time>>,
                     ret |-> <<>> ]
    /\ UNCHANGED <<bins, clock, dnVars>>

\* The stock ledger of the host ERP rewrites a Bin's actual_qty; the framework
\* stamps `modified` with the current time.  (reserved_qty is set when the Bin
\* is made and differs per Bin and from actual_qty.)
BinModified(b, actual) ==
    /\ bins' = [bins EXCEPT ![b] = [@ EXCEPT !.actual_qty = actual,
                                              !.modified = now]]
    /\ lastCall' = NoCall
    /\ UNCHANGED <<ecom, clock, dnVars>>

Tick ==
    /\ clock < MaxTime
    /\ clock' = clock + 1
    /\ lastCall' = NoCall
    /\ UNCHANGED <<ecom, bins, dnVars>>

\* Ecommerce Items: EI-1 maps ITEM-A for shopify; EI-2 maps any item for any
\* integration (up to renaming this covers every pair of mappings).  Bins are
\* unique per (item_code, warehouse).
InitCatalogue ==
    /\ \E item2 \in ItemCodes, integ2 \in Integrations :
          ecom = [n \in EcomItemNames |->
                    [ erpnext_item_code |-> IF n = "EI-1" THEN "ITEM-A" ELSE item2,
                      integration |-> IF n = "EI-1" THEN "shopify" ELSE integ2,
                      integration_item_code |-> IF n = "EI-1" THEN "SKU-1" ELSE "SKU-2",
                      variant_id |-> IF n = "EI-1" THEN "VAR-1" ELSE "VAR-2",
                      inventory_synced_on |-> 0 ]]
    /\ \E binItem2 \in ItemCodes :
          bins = [b \in BinNames |->
                    [ item_code |-> IF b = "BIN-1" THEN "ITEM-A" ELSE binItem2,
                      warehouse |-> IF b = "BIN-1" THEN "WH-1" ELSE "WH-2",
                      actual_qty |-> 0,
                      reserved_qty |-> IF b = "BIN-1" THEN 1 ELSE 2,
                      modified |-> 0 ]]
    /\ clock = 0
    /\ lastCall = NoCall

NextInventory ==
    \/ \E ws \in WarehouseTuples, i \in Integrations : GetInventoryLevels(ws, i)
    \/ \E w \in Warehouses, i \in Integrations : GetInventoryLevelsOfGroupWarehouse(w, i)
    \/ \E e \in EcomItemNames, t \in Times : UpdateInventorySyncStatus(e, Some(t))
    \/ \E e \in EcomItemNames \cup {MissingEcomItem} :
          UpdateInventorySyncStatus(e, None)
    \/ \E b \in BinNames, a \in Qtys : BinModified(b, a)
    \/ Tick

(***************************************************************************)
(* prepare_delivery_note and create_delivery_note                          *)
(***************************************************************************)
\* keys of settings.get_integration_to_erpnext_wh_mapping(), in their order
enabled_facilities == <<"FAC-1", "FAC-2">>
\* a facility the API knows and the mapping does not
UnmappedFacility == "FAC-9"
\* frappe.db.get_list("Unicommerce Channel", filters={"enabled": 1}, pluck="channel_id")
enabled_channels == {"CH-ON"}
Channels == {"CH-ON", "CH-OFF"}
Statuses == {"DISPATCHED", "CREATED"}
\* the shipping packages the API knows, in the order it lists them
PackageCodes == <<"PKG-1", "PKG-2", "PKG-3", "PKG-4">>
PackageSet == {PackageCodes[i] : i \in DOMAIN PackageCodes}
NoPackageCode == "none"

DefaultStatusDays == 2
MaxStatusDays == 14

Min(a, b) == IF a < b THEN a ELSE b

\* min(settings.get("order_status_days") or 2, 14); an unset field reads as 0
days_to_sync ==
    Min(IF settings.order_status_days = 0 THEN DefaultStatusDays
        ELSE settings.order_status_days, MaxStatusDays)

minutes == days_to_sync * 24 * 60

\* a call that does not look at settings.delivery_note
MutDeliveryNoteEnabledAlways == TRUE

\* `if not settings.delivery_note: return`
DeliveryNoteEnabled == settings.delivery_note

\* client.search_shipping_packages(updated_since=minutes, facility_code=facility)
search_shipping_packages(facility) ==
    LET AtFacility(c) == api[c].facility = facility
    IN  SelectSeq(PackageCodes, AtFacility)

\* [p for p in updated_packages if p.get("channel") in enabled_channels]
valid_packages(updated_packages) ==
    LET Valid(c) == api[c].channel \in enabled_channels
    IN  SelectSeq(updated_packages, Valid)

\* a filter that lets every status through
MutShippedIgnoresStatus(valid) == valid

\* [p for p in valid_packages if p["status"] in ["DISPATCHED"]]
shipped_packages(valid) ==
    LET Shipped(c) == api[c].status \in {"DISPATCHED"}
    IN  SelectSeq(valid, Shipped)

\* frappe.db.exists("Delivery Note", {"unicommerce_shipment_id": order["code"]}, "name")
DeliveryNoteExists(code) ==
    \E i \in DOMAIN delivery_notes : delivery_notes[i].unicommerce_shipment_id = code

\* frappe.db.exists("Sales Order", {ORDER_CODE_FIELD: order["saleOrderCode"]})
SalesOrderExists(saleOrderCode) ==
    \E so \in sales_orders : so.unicommerce_order_code = saleOrderCode

\* frappe.get_doc("Sales Order", {ORDER_CODE_FIELD: order["saleOrderCode"]})
GetSalesOrder(saleOrderCode) ==
    CHOOSE so \in sales_orders : so.unicommerce_order_code = saleOrderCode

\* frappe.db.exists("Sales Invoice", {"unicommerce_order_code": ...})
SalesInvoiceExists(order_code) ==
    \E si \in sales_invoices : si.unicommerce_order_code = order_code

\* frappe.get_doc("Sales Invoice", {"unicommerce_order_code": ...})
GetSalesInvoice(order_code) ==
    CHOOSE si \in sales_invoices : si.unicommerce_order_code = order_code

\* the two nested `if`s guarding create_delivery_note(sales_order, sales_invoice)
ShouldCreate(order) ==
    /\ ~DeliveryNoteExists(api[order].code)
    /\ SalesOrderExists(api[order].saleOrderCode)
    /\ SalesInvoiceExists(GetSalesOrder(api[order].saleOrderCode).unicommerce_order_code)

\* the document create_delivery_note saves and submits
NewDeliveryNote(so, sales_invoice) ==
    [ sales_order |-> so.name,
      unicommerce_order_code |-> sales_invoice.unicommerce_order_code,
      unicommerce_shipment_id |-> sales_invoice.unicommerce_shipping_package_code ]

\* the log create_delivery_note leaves: made new, then set to Success
SuccessLog == [status |-> "Success", method |-> "create_delevery_note", rollback |-> FALSE]

\* create_unicommerce_log(status="Error", exception=e, rollback=True)
ErrorLog == [status |-> "Error", method |-> "", rollback |-> TRUE]

\* a handler that swallows the exception without logging it
MutLogsAfterErrorNothing(written) == written

\* the logs once the handler has run
LogsAfterError(written) == Append(written, ErrorLog)

\* `except Exception as e:` - the call ends here, the exception goes no further.
\* The rollback the log is asked for undoes what this call has not committed:
\* whether the Delivery Notes it created were committed is the log utility's
\* business, so both outcomes are possible.
ExceptHandler ==
    /\ logs' = LogsAfterError(logs)
    /\ outcome' = "caught"
    /\ pc' = "idle"
    /\ facQueue' = <<>>
    /\ pkgQueue' = <<>>
    /\ \E kept \in {Len(delivery_notes), Len(delivery_notes) - Len(createCalls)} :
          /\ delivery_notes' = SubSeq(delivery_notes, 1, kept)
          /\ createdFor' = SubSeq(createdFor, 1, kept)

\* `return` / falling off the end of the `try` block
Return ==
    /\ outcome' = "returned"
    /\ pc' = "idle"
    /\ facQueue' = <<>>
    /\ pkgQueue' = <<>>

\* prepare_delivery_note is called: lines 11-24
Start ==
    /\ pc = "idle"
    /\ runs < MaxRuns
    /\ runs' = runs + 1
    /\ \/ \* reading the settings, the client or the channel list raises
          /\ logs' = LogsAfterError(<<>>)
          /\ outcome' = "caught"
          /\ UNCHANGED <<pc, facQueue, pkgQueue>>
       \/ /\ ~DeliveryNoteEnabled
          /\ Return
          /\ logs' = <<>>
       \/ /\ DeliveryNoteEnabled
          /\ pc' = "facilities"
          /\ facQueue' = enabled_facilities
          /\ outcome' = "running"
          /\ logs' = <<>>
          /\ UNCHANGED pkgQueue
    /\ apiCalls' = <<>>
    /\ createCalls' = <<>>
    /\ UNCHANGED <<settings, api, sales_orders, sales_invoices, delivery_notes,
                   createdFor, invVars>>

\* one turn of `for facility in enabled_facilities:` up to the inner loop
FetchFacility ==
    /\ pc = "facilities"
    /\ facQueue # <<>>
    /\ LET facility == Head(facQueue)
           updated_packages == search_shipping_packages(facility)
           valid == valid_packages(updated_packages)
           shipped == shipped_packages(valid)
       IN  /\ apiCalls' = Append(apiCalls, [facility_code |-> facility,
                                            updated_since |-> minutes])
           /\ \/ \* the API call raises
                 /\ ExceptHandler
              \/ /\ facQueue' = Tail(facQueue)
                 /\ pkgQueue' = IF valid = <<>> THEN <<>> ELSE shipped
                 /\ pc' = IF pkgQueue' = <<>> THEN "facilities" ELSE "packages"
                 /\ UNCHANGED <<outcome, logs, delivery_notes, createdFor>>
    /\ UNCHANGED <<settings, api, sales_orders, sales_invoices, runs, createCalls,
                   invVars>>

\* one turn of `for order in shipped_packages:`
ProcessPackage ==
    /\ pc = "packages"
    /\ pkgQueue # <<>>
    /\ LET order == Head(pkgQueue)
           next == /\ pkgQueue' = Tail(pkgQueue)
                   /\ pc' = IF pkgQueue' = <<>> THEN "facilities" ELSE "packages"
                   /\ UNCHANGED <<facQueue, outcome>>
       IN  \/ \* a lookup raises
              /\ ExceptHandler
              /\ UNCHANGED createCalls
           \/ /\ ~ShouldCreate(order)
              /\ next
              /\ UNCHANGED <<delivery_notes, createdFor, logs, createCalls>>
           \/ /\ ShouldCreate(order)
              /\ createCalls' = Append(createCalls, order)
              /\ LET sales_order == GetSalesOrder(api[order].saleOrderCode)
                     sales_invoice == GetSalesInvoice(sales_order.unicommerce_order_code)
                 IN  \/ \* create_delivery_note: make, save, submit, log
                        /\ delivery_notes' = Append(delivery_notes,
                                                NewDeliveryNote(sales_order, sales_invoice))
                        /\ createdFor' = Append(createdFor, order)
                        /\ logs' = Append(logs, SuccessLog)
                        /\ next
                     \/ \* make_delivery_note, save or submit raises
                        ExceptHandler
    /\ UNCHANGED <<settings, api, sales_orders, sales_invoices, runs, apiCalls, invVars>>

\* the outer loop is over: the function returns
Finish ==
    /\ pc = "facilities"
    /\ facQueue = <<>>
    /\ Return
    /\ UNCHANGED <<settings, api, sales_orders, sales_invoices, delivery_notes,
                   createdFor, runs, logs, apiCalls, createCalls, invVars>>

Package(code, facility, channel, status, saleOrderCode) ==
    [ code |-> code, facility |-> facility, channel |-> channel, status |-> status,
      saleOrderCode |-> saleOrderCode ]

Invoices(order_code, package_code) ==
    IF package_code = NoPackageCode THEN {}
    ELSE {[ name |-> "SINV-" \o order_code,
            unicommerce_order_code |-> order_code,
            unicommerce_shipping_package_code |-> package_code ]}

ProcessAtRest ==
    /\ delivery_notes = <<>>
    /\ createdFor = <<>>
    /\ pc = "idle"
    /\ facQueue = <<>>
    /\ pkgQueue = <<>>
    /\ runs = 0
    /\ outcome = "none"
    /\ logs = <<>>
    /\ apiCalls = <<>>
    /\ createCalls = <<>>

\* The documents and the API's answers the delivery note creator finds.
InitRecords ==
    /\ \E enabled \in BOOLEAN, days \in {0, 30} :
          settings = [delivery_note |-> enabled, order_status_days |-> days]
    /\ \E s1 \in Statuses, c1 \in Channels, c2 \in Channels, s3 \in Statuses :
          api = [c \in PackageSet |->
                   CASE c = "PKG-1" -> Package(c, "FAC-1", c1, s1, "UC-1")
                     [] c = "PKG-2" -> Package(c, "FAC-1", c2, "DISPATCHED", "UC-1")
                     [] c = "PKG-3" -> Package(c, "FAC-2", "CH-ON", s3, "UC-2")
                     [] OTHER -> Package(c, UnmappedFacility, "CH-ON", "DISPATCHED", "UC-2")]
    /\ \E codes \in SUBSET {"UC-1", "UC-2"} :
          sales_orders = {[name |-> "SO-" \o c, unicommerce_order_code |-> c] : c \in codes}
    /\ \E p1 \in {NoPackageCode, "PKG-1", "PKG-2"}, p2 \in {NoPackageCode, "PKG-3"} :
          sales_invoices = Invoices("UC-1", p1) \cup Invoices("UC-2", p2)

DeliveryAtRest ==
    /\ settings = [delivery_note |-> FALSE, order_status_days |-> 0]
    /\ api = [c \in {} |-> Package(c, "FAC-1", "CH-ON", "DISPATCHED", "UC-1")]
    /\ sales_orders = {}
    /\ sales_invoices = {}
    /\ ProcessAtRest

InventoryAtRest ==
    /\ ecom = [n \in EcomItemNames |->
                 [ erpnext_item_code |-> "ITEM-A", integration |-> "unicommerce",
                   integration_item_code |-> "SKU-1", variant_id |-> "VAR-1",
                   inventory_synced_on |-> 0 ]]
    /\ bins = [b \in BinNames |->
                 [ item_code |-> "ITEM-A", warehouse |-> "WH-1", actual_qty |-> 0,
                   reserved_qty |-> 0, modified |-> 0 ]]
    /\ clock = 0
    /\ lastCall = NoCall

InitDelivery == InitRecords /\ ProcessAtRest /\ InventoryAtRest

NextDelivery == Start \/ FetchFacility \/ ProcessPackage \/ Finish

SpecDelivery == InitDelivery /\ [][NextDelivery]_vars

InitInventory == InitCatalogue /\ DeliveryAtRest

SpecInventory == InitInventory /\ [][NextInventory]_vars

\* The controller without its group-warehouse reader, which writes nothing:
\* get_inventory_levels and update_inventory_sync_status against the same
\* tables, clock and stock ledger.
NextLevels ==
    \/ \E ws \in WarehouseTuples, i \in Integrations : GetInventoryLevels(ws, i)
    \/ \E e \in EcomItemNames, t \in Times : UpdateInventorySyncStatus(e, Some(t))
    \/ \E e \in EcomItemNames \cup {MissingEcomItem} :
          UpdateInventorySyncStatus(e, None)
    \/ \E b \in BinNames, a \in Qtys : BinModified(b, a)
    \/ Tick

SpecLevels == InitInventory /\ [][NextLevels]_vars

(***************************************************************************)
(* Properties of the inventory controller (SpecInventory, SpecLevels)       *)
(***************************************************************************)
IsLevelsCall == lastCall.op = "get_inventory_levels"
IsGroupCall == lastCall.op = "get_inventory_levels_of_group_warehouse"
IsUpdateCall == lastCall.op = "update_inventory_sync_status"

\* the four conditions of C1 on a pair (Ecommerce Item e, Bin b)
PairQualifies(e, b, warehouses, integration) ==
    /\ ecom[e].erpnext_item_code = bins[b].item_code
    /\ bins[b].warehouse \in warehouses
    /\ ecom[e].integration = integration
    /\ bins[b].modified > ecom[e].inventory_synced_on

\* a row that stands for the pair (e, b): a Bin is known by its item and warehouse
RowIsOfPair(r, e, b) ==
    /\ r.ecom_item = e
    /\ r.item_code = bins[b].item_code
    /\ r.warehouse = bins[b].warehouse

\* how many rows of the returned bag stand for the pair (e, b)
RowsOfPair(ret, e, b) ==
    BagCardinality([r \in {x \in DOMAIN ret : RowIsOfPair(x, e, b)} |-> ret[r]])

\* C1: get_inventory_levels returns exactly one row for every pair (E, B) with
\* E.erpnext_item_code = B.item_code, B.warehouse in warehouses, E.integration =
\* integration and B.modified strictly later than E.inventory_synced_on, no row
\* for any other pair, and each row carries its Bin's actual_qty, reserved_qty
\* and warehouse.
C1_LevelsExactlyTheChangedPairs ==
    IsLevelsCall =>
        LET warehouses == lastCall.args[1]
            integration == lastCall.args[2]
            ret == lastCall.ret
        IN  /\ \A e \in EcomItemNames, b \in BinNames :
                  RowsOfPair(ret, e, b) =
                      IF PairQualifies(e, b, warehouses, integration) THEN 1 ELSE 0
            /\ \A r \in DOMAIN ret :
                  \E e \in EcomItemNames, b \in BinNames :
                      /\ PairQualifies(e, b, warehouses, integration)
                      /\ RowIsOfPair(r, e, b)
                      /\ r.actual_qty = bins[b].actual_qty
                      /\ r.reserved_qty = bins[b].reserved_qty

\* C1's case: a query that returns a row while leaving out a pair whose Bin was
\* modified exactly at the item's (non-initial) sync time.
C1_Witness ==
    /\ IsLevelsCall
    /\ BagCardinality(lastCall.ret) >= 1
    /\ \E e \in EcomItemNames, b \in BinNames :
          /\ JoinOn(e, b)
          /\ bins[b].warehouse \in lastCall.args[1]
          /\ ecom[e].integration = lastCall.args[2]
          /\ bins[b].modified = ecom[e].inventory_synced_on
          /\ bins[b].modified > 0

RECURSIVE BinSum(_, _)
BinSum(bs, col) ==
    IF bs = {} THEN 0
    ELSE LET b == CHOOSE x \in bs : TRUE IN bins[b][col] + BinSum(bs \ {b}, col)

\* the Bins of an item in a warehouse or any warehouse below it
BinsUnder(item_code, warehouse) ==
    {b \in BinNames : /\ bins[b].item_code = item_code
                      /\ bins[b].warehouse \in {warehouse} \cup get_descendants_of(warehouse)}

\* C3: get_inventory_levels_of_group_warehouse returns at most one row per item
\* code; in each row actual_qty and reserved_qty are the sums over the item's
\* Bins in the group warehouse or below it, each Bin counted once, and the row's
\* warehouse is the group warehouse passed in.
C3_GroupRowSumsEachBinOnce ==
    IsGroupCall =>
        LET warehouse == lastCall.args[1]
            ret == lastCall.ret
        IN  /\ \A r \in DOMAIN ret : ret[r] = 1
            /\ \A r1 \in DOMAIN ret, r2 \in DOMAIN ret :
                  r1.item_code = r2.item_code => r1 = r2
            /\ \A r \in DOMAIN ret :
                  /\ r.actual_qty = BinSum(BinsUnder(r.item_code, warehouse), "actual_qty")
                  /\ r.reserved_qty = BinSum(BinsUnder(r.item_code, warehouse), "reserved_qty")
                  /\ r.warehouse = warehouse

\* C4: update_inventory_sync_status(ecommerce_item, time) sets the named item's
\* inventory_synced_on to time when given and to the current time when None, and
\* leaves every other Ecommerce Item and every Bin unchanged.
C4_UpdateStampsOnlyTheNamedItem ==
    [][ lastCall'.op = "update_inventory_sync_status" =>
          LET ecommerce_item == lastCall'.args[1]
              time == lastCall'.args[2]
          IN  /\ ecommerce_item \in EcomItemNames =>
                    ecom'[ecommerce_item].inventory_synced_on =
                        IF time = None THEN clock ELSE time[1]
              /\ \A o \in EcomItemNames \ {ecommerce_item} : ecom'[o] = ecom[o]
              /\ bins' = bins
      ]_vars

\* C4's case: a call without a time, after the clock moved, stamped one item
\* with the current time and left the other at another stamp.
C4_Witness ==
    /\ IsUpdateCall
    /\ lastCall.args[2] = None
    /\ lastCall.args[1] \in EcomItemNames
    /\ clock > 0
    /\ ecom[lastCall.args[1]].inventory_synced_on = clock
    /\ \E o \in EcomItemNames : ecom[o].inventory_synced_on # clock

\* the warehouses a query looked at
QueriedWarehouses ==
    IF IsLevelsCall THEN lastCall.args[1] ELSE all_warehouses(lastCall.args[1])

\* the Bins of Ecommerce Item e in the queried warehouses
OwnBins(e) ==
    {b \in BinNames : /\ bins[b].item_code = ecom[e].erpnext_item_code
                      /\ bins[b].warehouse \in QueriedWarehouses}

StampCoversBins(e) == \A b \in OwnBins(e) : bins[b].modified <= ecom[e].inventory_synced_on

\* the query returned a row of Ecommerce Item e
ReturnedAs(e) == \E r \in DOMAIN lastCall.ret : r.ecom_item = e

\* the query returned the item of e: its own row from get_inventory_levels, the
\* row of its item code from the group query
ItemReturned(e) ==
    \E r \in DOMAIN lastCall.ret :
        /\ r.item_code = ecom[e].erpnext_item_code
        /\ IsLevelsCall => r.ecom_item = e

\* C5: once an Ecommerce Item is stamped with a time not earlier than the
\* modified time of its Bins, neither query returns it until one of its Bins in
\* the queried warehouses is modified later; once a Bin is modified after the
\* stamp, the next query (for the item's integration) returns the item again.
C5_StampHidesItemUntilBinModified ==
    (IsLevelsCall \/ IsGroupCall) =>
        \A e \in EcomItemNames :
            /\ StampCoversBins(e) => ~ReturnedAs(e)
            /\ (ecom[e].integration = lastCall.args[2] /\ ~StampCoversBins(e))
                  => ItemReturned(e)

\* The parts of C5 that the code keeps: the first half for both queries, the
\* second half for get_inventory_levels.
C5_HiddenWhileCovered ==
    (IsLevelsCall \/ IsGroupCall) =>
        \A e \in EcomItemNames : StampCoversBins(e) => ~ReturnedAs(e)

C5_LevelsReturnAfterModification ==
    IsLevelsCall =>
        \A e \in EcomItemNames :
            (ecom[e].integration = lastCall.args[2] /\ ~StampCoversBins(e))
                => ItemReturned(e)

(***************************************************************************)
(* Properties of the delivery note creator (checked under SpecDelivery)    *)
(***************************************************************************)
MappedFacilities == {enabled_facilities[i] : i \in DOMAIN enabled_facilities}

\* the six conditions of C2 on a shipping package, in the current state
Eligible(p) ==
    /\ api[p].facility \in MappedFacilities
    /\ api[p].channel \in enabled_channels
    /\ api[p].status = "DISPATCHED"
    /\ \A i \in DOMAIN delivery_notes : delivery_notes[i].unicommerce_shipment_id # api[p].code
    /\ \E so \in sales_orders :
          /\ so.unicommerce_order_code = api[p].saleOrderCode
          /\ \E si \in sales_invoices :
                si.unicommerce_order_code = so.unicommerce_order_code

\* C2: prepare_delivery_note calls create_delivery_note for a package only if the
\* package is reported for a mapped facility, its channel is enabled, its status
\* is DISPATCHED, no Delivery Note has its code as unicommerce_shipment_id, its
\* Sales Order exists and that order's Sales Invoice exists; no Delivery Note is
\* created for a package failing any of these.
C2_CreateOnlyForEligiblePackages ==
    [][ /\ (createCalls' # createCalls /\ createCalls' # <<>>) =>
              /\ Len(createCalls') = Len(createCalls) + 1
              /\ Eligible(createCalls'[Len(createCalls')])
        /\ Len(delivery_notes') > Len(delivery_notes) =>
              /\ Len(delivery_notes') = Len(delivery_notes) + 1
              /\ Len(createCalls') = Len(createCalls) + 1
              /\ createdFor' = Append(createdFor, createCalls'[Len(createCalls')])
      ]_vars

\* C2's case: a finished call that created a note and passed over a DISPATCHED
\* package of an enabled channel and mapped facility.
C2_Witness ==
    /\ outcome = "returned"
    /\ delivery_notes # <<>>
    /\ createCalls # <<>>
    /\ \E p \in PackageSet :
          /\ api[p].facility \in MappedFacilities
          /\ api[p].channel \in enabled_channels
          /\ api[p].status = "DISPATCHED"
          /\ \A i \in DOMAIN createCalls : createCalls[i] # p

ErrorLogs == {i \in DOMAIN logs : logs[i].status = "Error"}

\* C6: prepare_delivery_note never lets an exception out: a call in which
\* something raised ends caught, with exactly one Error log written, rollback
\* requested; a call in which nothing raised writes no Error log.
C6_ExceptionsCaughtAndLoggedOnce ==
    /\ outcome \in {"none", "running", "returned", "caught"}
    /\ (pc = "idle" /\ runs > 0) => outcome \in {"returned", "caught"}
    /\ outcome = "caught" =>
          /\ pc = "idle"
          /\ Cardinality(ErrorLogs) = 1
          /\ \A i \in ErrorLogs : logs[i].rollback
    /\ outcome \in {"running", "returned"} => ErrorLogs = {}

\* C6's case: an exception after the call had already created a Delivery Note.
C6_Witness ==
    /\ outcome = "caught"
    /\ Len(logs) >= 2
    /\ createCalls # <<>>

NotesFor(p) == {i \in DOMAIN createdFor : createdFor[i] = p}

\* C7: over any number of calls against an API that keeps reporting the same
\* DISPATCHED packages there is at most one Delivery Note per shipping package:
\* a package that got its Delivery Note in an earlier call is skipped later.
C7_OneDeliveryNotePerPackage ==
    [][ /\ \A p \in PackageSet : Cardinality({i \in DOMAIN createdFor' : createdFor'[i] = p}) <= 1
        /\ (createCalls' # createCalls /\ createCalls' # <<>>) =>
              NotesFor(createCalls'[Len(createCalls')]) = {}
      ]_vars

\* C8: with settings.delivery_note off, a call (whose reading of the settings
\* did not raise) returns at once: no API call, no Delivery Note, no log.
C8_DisabledCallDoesNothing ==
    [][ (pc = "idle" /\ runs' = runs + 1 /\ ~settings.delivery_note /\ outcome' # "caught") =>
          /\ pc' = "idle"
          /\ outcome' = "returned"
          /\ apiCalls' = <<>>
          /\ createCalls' = <<>>
          /\ logs' = <<>>
          /\ delivery_notes' = delivery_notes
      ]_vars

\* C8's case: a call returned with the setting off.
C8_Witness ==
    /\ runs >= 1
    /\ ~settings.delivery_note
    /\ outcome = "returned"
    /\ pc = "idle"

=============================================================================
